---- MODULE Spec2Model ----
(***************************************************************************)
(* Model of src/main.rs of llm-playground: the per-frame draw loop of      *)
(* main(), draw_background() and Character::draw().                        *)
(*                                                                         *)
(* The state is the set of loaded assets (map, tileset, texture), the      *)
(* position of the loop inside one frame, and the list of draw commands     *)
(* issued so far in the current frame.  Option<T> is a sequence of length  *)
(* 0 (None) or 1 (Some).  f32 values are exact rationals <<n, d>>.          *)
(***************************************************************************)
EXTENDS Integers, Sequences, FiniteSets, TLC

VARIABLES
    overflow_checks,     \* TRUE: u32 arithmetic panics on overflow (debug), FALSE: wraps (release)
    world_map,           \* tiled::Map: width, height, tile_width, tile_height, layers
    background_tileset,  \* tiled::Tileset: tile_width, tile_height, spacing, margin
    background_texture,  \* Texture2D: size w, h
    pc,                  \* position of main() inside the loop body
    camera,              \* "offscreen" (render_target_camera) or "window" (default camera)
    li,                  \* index of the layer draw_background is in (1-based)
    x,                   \* outer loop variable of draw_background
    y,                   \* inner loop variable of draw_background
    ci,                  \* index of the character being drawn (1-based)
    calls,               \* draw commands issued in the current frame, in order
    visited              \* cells <<layer, x, y>> whose get_tile was evaluated in the current frame

vars == <<overflow_checks, world_map, background_tileset, background_texture,
          pc, camera, li, x, y, ci, calls, visited>>

(***************************************************************************)
(* Bounds of the explored inputs.                                          *)
(***************************************************************************)
MaxLayers == 2
MaxLayerDim == 2
MaxSeed == 1
MaxMapDim == 2
MaxTile == 2
MaxMargin == 1
MaxSpacing == 1
MaxTexW == 4
MaxTexH == 4
MaxTileId == 4
MaxWin == 3

(***************************************************************************)
(* Arithmetic helpers.                                                     *)
(***************************************************************************)
Pow2_30 == 1073741824
Pow2_29 == 536870912
MaxInt == 2147483647

Abs(n) == IF n < 0 THEN -n ELSE n

RECURSIVE GCD(_, _)
GCD(a, b) == IF b = 0 THEN a ELSE GCD(b, a % b)

\* An f32 value as an exact rational in lowest terms, denominator > 0.
Rat(n, d) ==
    LET g == GCD(Abs(n), Abs(d))
        s == IF d < 0 THEN -1 ELSE 1
    IN <<(s * n) \div g, (s * d) \div g>>

RInt(n) == <<n, 1>>
RDiv(a, b) == Rat(a[1] * b[2], a[2] * b[1])
RMul(a, b) == Rat(a[1] * b[1], a[2] * b[2])
RSub(a, b) == Rat(a[1] * b[2] - b[1] * a[2], a[2] * b[2])
RLe(a, b) == a[1] * b[2] <= b[1] * a[2]
RHalf == <<1, 2>>

RMin(a, b) == IF RLe(b, a) /\ ~RLe(a, b) THEN b ELSE a

\* (2^32 + d) \div k for -2^30 < d < 0 < k: the quotient of a u32 numerator that
\* wrapped below zero, saturated at MaxInt (every tile id of the model is
\* below MaxInt, so id % q and id \div q are those of the unsaturated q).
WrappedDiv(d, k) ==
    LET qa == Pow2_30 \div k
        ra == Pow2_30 % k
    IN IF qa >= Pow2_29 THEN MaxInt ELSE 4 * qa + ((4 * ra + d) \div k)

(***************************************************************************)
(* Assets.                                                                 *)
(***************************************************************************)
None == <<>>
Some(v) == <<v>>

\* The tile a finite layer of the explored inputs holds at (cx, cy).
SeedTile(cx, cy, seed) ==
    LET n == cx + 2 * cy + seed
    IN IF n % 3 = 0 THEN None
       ELSE Some([id |-> n % (MaxTileId + 1),
                  flip_h |-> (cx + seed) % 2 = 1,
                  flip_v |-> (cy + seed) % 2 = 1])

FiniteLayer(w, h, tiles) ==
    [kind |-> "tile", width |-> Some(w), height |-> Some(h), tiles |-> tiles]

SeedLayer(w, h, seed) ==
    FiniteLayer(w, h, [p \in (0 .. w - 1) \X (0 .. h - 1) |-> SeedTile(p[1], p[2], seed)])

\* An infinite tile layer: as_tile_layer() is Some, width() and height() are None.
InfiniteLayer == [kind |-> "tile", width |-> None, height |-> None, tiles |-> <<>>]

\* An object layer: as_tile_layer() is None.
ObjectLayer == [kind |-> "object", width |-> None, height |-> None, tiles |-> <<>>]

\* layer.get_tile(x, y)
GetTile(layer, cx, cy) ==
    IF <<cx, cy>> \in DOMAIN layer.tiles THEN layer.tiles[<<cx, cy>>] ELSE None

MapOf(w, h, tw, th, layers) ==
    [width |-> w, height |-> h, tile_width |-> tw, tile_height |-> th, layers |-> layers]

TilesetOf(tw, th, margin, spacing) ==
    [tile_width |-> tw, tile_height |-> th, margin |-> margin, spacing |-> spacing]

TextureOf(w, h) == [w |-> w, h |-> h]

\* The roster of main(): name and spawn position.
Characters ==
    << [name |-> "Kas", position |-> <<100, 100>>],
       [name |-> "Jeid", position |-> <<200, 200>>],
       [name |-> "Bres", position |-> <<400, 230>>] >>

\* AnimatedSprite::new(16, 16, ...): the sprite cell size.
SpriteTileWidth == 16
SpriteTileHeight == 16

\* Window sizes the host may report through screen_width(), screen_height().
WindowSizes == ((1 .. MaxWin) \X (1 .. MaxWin)) \cup {<<1600, 600>>}

(***************************************************************************)
(* main(): the size of the offscreen render target.                        *)
(***************************************************************************)
\* Faulty variant: the width in tiles is taken for the width in pixels.
MapWidth_NoTileWidth == world_map.width
MapWidth == world_map.width * world_map.tile_width
MapHeight == world_map.height * world_map.tile_height

(***************************************************************************)
(* draw_background: the tileset arithmetic of one populated cell.          *)
(***************************************************************************)
\* Faulty variant: the spacing is left out of the numerator.
TilesPerRow_NoSpacing(texture_w, ts, checks) ==
    LET k == ts.tile_width + ts.spacing
    IN IF texture_w < ts.margin \/ k = 0 THEN None
       ELSE Some((texture_w - ts.margin) \div k)

\* (texture.size().x as u32 - margin + spacing) / (tile_width + spacing) in u32:
\* None is a panic (subtraction overflow with overflow checks, or division by
\* zero); without overflow checks the numerator wraps modulo 2^32.
TilesPerRow(texture_w, ts, checks) ==
    LET d == texture_w - ts.margin + ts.spacing
        k == ts.tile_width + ts.spacing
    IN IF texture_w < ts.margin /\ checks THEN None
       ELSE IF k = 0 THEN None
       ELSE IF d >= 0 THEN Some(d \div k)
       ELSE Some(WrappedDiv(d, k))

\* Faulty variant: column and row are exchanged.
SourceRect_Swapped(tile_id, tiles_per_row, ts) ==
    << (tile_id \div tiles_per_row) * ts.tile_width,
       (tile_id % tiles_per_row) * ts.tile_height,
       ts.tile_width, ts.tile_height >>

\* Rect::new(tileset_texture_x, tileset_texture_y, tile_width, tile_height)
SourceRect(tile_id, tiles_per_row, ts) ==
    << (tile_id % tiles_per_row) * ts.tile_width,
       (tile_id \div tiles_per_row) * ts.tile_height,
       ts.tile_width, ts.tile_height >>

\* Faulty variant: the flip flags are exchanged.
TileCall_FlipSwapped(layer_index, cx, cy, tile, tiles_per_row) ==
    [kind |-> "tile", target |-> camera, cell |-> <<layer_index, cx, cy>>,
     pos |-> <<cx * background_tileset.tile_width, cy * background_tileset.tile_height>>,
     size |-> None,
     source |-> SourceRect(tile.id, tiles_per_row, background_tileset),
     flip_x |-> tile.flip_v, flip_y |-> tile.flip_h, window |-> None]

\* The draw_texture_ex call of draw_background.
TileCall(layer_index, cx, cy, tile, tiles_per_row) ==
    [kind |-> "tile", target |-> camera, cell |-> <<layer_index, cx, cy>>,
     pos |-> <<cx * background_tileset.tile_width, cy * background_tileset.tile_height>>,
     size |-> None,
     source |-> SourceRect(tile.id, tiles_per_row, background_tileset),
     flip_x |-> tile.flip_h, flip_y |-> tile.flip_v, window |-> None]

\* Faulty variant: the loops are nested the other way round (y outside, x inside).
NextCell_RowMajor(cx, cy, w, h) ==
    IF cx + 1 < w THEN Some(<<cx + 1, cy>>)
    ELSE IF cy + 1 < h THEN Some(<<0, cy + 1>>)
    ELSE None

\* for x in 0..width { for y in 0..height { .. } }: the cell after (cx, cy),
\* None when both loops are exhausted.
NextCell(cx, cy, w, h) ==
    IF cy + 1 < h THEN Some(<<cx, cy + 1>>)
    ELSE IF cx + 1 < w THEN Some(<<cx + 1, 0>>)
    ELSE None

(***************************************************************************)
(* Character::draw and the rest of the frame.                              *)
(***************************************************************************)
\* The draw_texture_ex call of Character::draw.  The source rectangle is
\* idle_sprite.frame().source_rect, a value of macroquad's AnimatedSprite that
\* main.rs does not compute; it is left out of the command.
EntityCall(i) ==
    [kind |-> "entity", target |-> camera, cell |-> <<i>>,
     pos |-> Characters[i].position,
     size |-> <<SpriteTileWidth, SpriteTileHeight>>,
     source |-> None, flip_x |-> FALSE, flip_y |-> FALSE, window |-> None]

\* draw_text(format!("FPS: {}", get_fps()), 8., 16., 16., WHITE)
TextCall ==
    [kind |-> "text", target |-> camera, cell |-> None, pos |-> <<8, 16>>,
     size |-> <<16>>, source |-> None, flip_x |-> FALSE, flip_y |-> FALSE,
     window |-> None]

\* clear_background(BLACK)
ClearCall(cam) ==
    [kind |-> "clear", target |-> cam, cell |-> None, pos |-> None,
     size |-> None, source |-> None, flip_x |-> FALSE, flip_y |-> FALSE,
     window |-> None]

\* Faulty variant: the larger of the two ratios.
Zoom_Max(win) ==
    LET zx == RDiv(RInt(win[1]), RInt(MapWidth))
        zy == RDiv(RInt(win[2]), RInt(MapHeight))
    IN IF RLe(zx, zy) THEN zy ELSE zx

\* f32::min(screen_width() / map_width, screen_height() / map_height)
Zoom(win) ==
    RMin(RDiv(RInt(win[1]), RInt(MapWidth)), RDiv(RInt(win[2]), RInt(MapHeight)))

\* The draw_texture_ex call that puts the render target on the window.
BlitCall(win) ==
    LET zoom == Zoom(win)
    IN [kind |-> "blit", target |-> camera, cell |-> None,
        pos |-> << RMul(RSub(RInt(win[1]), RMul(RInt(MapWidth), zoom)), RHalf),
                   RMul(RSub(RInt(win[2]), RMul(RInt(MapHeight), zoom)), RHalf) >>,
        size |-> << RMul(RInt(MapWidth), zoom), RMul(RInt(MapHeight), zoom) >>,
        source |-> None, flip_x |-> FALSE, flip_y |-> TRUE, window |-> win]

(***************************************************************************)
(* Actions: the steps of one iteration of the loop of main().              *)
(***************************************************************************)
Panic ==
    /\ pc' = "panic"
    /\ UNCHANGED <<camera, li, x, y, ci, calls, visited>>

\* set_camera(&render_target_camera) and the call of draw_background
SetCamera ==
    /\ pc = "set_camera"
    /\ camera' = "offscreen"
    /\ pc' = "background"
    /\ li' = 1
    /\ UNCHANGED <<overflow_checks, world_map, background_tileset, background_texture,
                   x, y, ci, calls, visited>>

\* for layer in world_map.layers(): the unwraps and the entry of the two loops
BeginLayer ==
    /\ pc = "background"
    /\ li <= Len(world_map.layers)
    /\ LET layer == world_map.layers[li]
       IN IF layer.kind # "tile" \/ layer.width = None THEN Panic
          ELSE IF layer.width[1] = 0
          THEN /\ li' = li + 1
               /\ UNCHANGED <<pc, camera, x, y, ci, calls, visited>>
          ELSE IF layer.height = None THEN Panic
          ELSE IF layer.height[1] = 0
          THEN /\ li' = li + 1
               /\ UNCHANGED <<pc, camera, x, y, ci, calls, visited>>
          ELSE /\ pc' = "cell"
               /\ x' = 0
               /\ y' = 0
               /\ UNCHANGED <<camera, li, ci, calls, visited>>
    /\ UNCHANGED <<overflow_checks, world_map, background_tileset, background_texture>>

\* One iteration of the inner loop: get_tile, the tileset arithmetic, the draw call.
VisitCell ==
    /\ pc = "cell"
    /\ LET layer == world_map.layers[li]
           got == GetTile(layer, x, y)
           tpr == TilesPerRow(background_texture.w, background_tileset, overflow_checks)
           next == NextCell(x, y, layer.width[1], layer.height[1])
       IN IF got # None /\ (tpr = None \/ tpr = Some(0)) THEN Panic
          ELSE /\ visited' = Append(visited, <<li, x, y>>)
               /\ calls' = IF got = None THEN calls
                           ELSE Append(calls, TileCall(li, x, y, got[1], tpr[1]))
               /\ IF next = None
                  THEN pc' = "background" /\ li' = li + 1 /\ UNCHANGED <<x, y>>
                  ELSE pc' = "cell" /\ x' = next[1][1] /\ y' = next[1][2] /\ li' = li
               /\ UNCHANGED <<camera, ci>>
    /\ UNCHANGED <<overflow_checks, world_map, background_tileset, background_texture>>

\* draw_background returns; the loop over the characters starts
EndBackground ==
    /\ pc = "background"
    /\ li > Len(world_map.layers)
    /\ pc' = "characters"
    /\ ci' = 1
    /\ UNCHANGED <<overflow_checks, world_map, background_tileset, background_texture,
                   camera, li, x, y, calls, visited>>

\* character.draw() of one character
CharacterDraw ==
    /\ pc = "characters"
    /\ ci <= Len(Characters)
    /\ calls' = Append(calls, EntityCall(ci))
    /\ ci' = ci + 1
    /\ pc' = IF ci = Len(Characters) THEN "fps" ELSE "characters"
    /\ UNCHANGED <<overflow_checks, world_map, background_tileset, background_texture,
                   camera, li, x, y, visited>>

\* draw_text of the frame rate
DrawFps ==
    /\ pc = "fps"
    /\ calls' = Append(calls, TextCall)
    /\ pc' = "clear"
    /\ UNCHANGED <<overflow_checks, world_map, background_tileset, background_texture,
                   camera, li, x, y, ci, visited>>

\* Faulty variant: the default camera is not restored before the clear.
ClearBackground_NoDefaultCamera ==
    /\ pc = "clear"
    /\ calls' = Append(calls, ClearCall(camera))
    /\ pc' = "blit"
    /\ UNCHANGED <<overflow_checks, world_map, background_tileset, background_texture,
                   camera, li, x, y, ci, visited>>

\* set_default_camera(); clear_background(BLACK)
ClearBackground ==
    /\ pc = "clear"
    /\ camera' = "window"
    /\ calls' = Append(calls, ClearCall("window"))
    /\ pc' = "blit"
    /\ UNCHANGED <<overflow_checks, world_map, background_tileset, background_texture,
                   li, x, y, ci, visited>>

\* zoom and the draw_texture_ex of render_target.texture; the window size is
\* what screen_width() and screen_height() return in this frame
Blit ==
    /\ pc = "blit"
    /\ \E win \in WindowSizes : calls' = Append(calls, BlitCall(win))
    /\ pc' = "next_frame"
    /\ UNCHANGED <<overflow_checks, world_map, background_tileset, background_texture,
                   camera, li, x, y, ci, visited>>

\* next_frame().await: the frame is presented, the command list is flushed, the
\* locals of the loop body go out of scope and the loop starts over
NextFrame ==
    /\ pc = "next_frame"
    /\ pc' = "set_camera"
    /\ calls' = <<>>
    /\ visited' = <<>>
    /\ li' = 1
    /\ x' = 0
    /\ y' = 0
    /\ ci' = 1
    /\ UNCHANGED <<overflow_checks, world_map, background_tileset, background_texture,
                   camera>>

Next ==
    \/ SetCamera
    \/ BeginLayer
    \/ VisitCell
    \/ EndBackground
    \/ CharacterDraw
    \/ DrawFps
    \/ ClearBackground
    \/ Blit
    \/ NextFrame

(***************************************************************************)
(* Initial states: the assets after a successful load, before the first    *)
(* iteration of the loop.                                                  *)
(***************************************************************************)
InitLoop ==
    /\ pc = "set_camera"
    /\ camera = "window"
    /\ li = 1
    /\ x = 0
    /\ y = 0
    /\ ci = 1
    /\ calls = <<>>
    /\ visited = <<>>

\* The layers a map of the explored inputs may hold, all of one size.
LayerShapes(w, h) ==
    {SeedLayer(w, h, seed) : seed \in 0 .. MaxSeed} \cup {InfiniteLayer, ObjectLayer}

LayerSeqs ==
    UNION {UNION {[1 .. n -> LayerShapes(w, h)] : n \in 0 .. MaxLayers} :
           w \in 1 .. MaxLayerDim, h \in 1 .. MaxLayerDim}

\* <<overflow checks, tileset, texture>>: two sound sheets (8 / 4 columns), a
\* sheet narrower than one tile (0 columns), a margin wider than the sheet.
MainRigs ==
    { <<TRUE, TilesetOf(2, 2, 0, 0), TextureOf(16, 4)>>,
      <<FALSE, TilesetOf(2, 2, 1, 1), TextureOf(12, 8)>>,
      <<TRUE, TilesetOf(4, 4, 0, 0), TextureOf(2, 2)>>,
      <<TRUE, TilesetOf(1, 1, 3, 0), TextureOf(2, 2)>>,
      <<FALSE, TilesetOf(1, 1, 3, 0), TextureOf(2, 2)>> }

\* Maps of any layer kinds and sizes, a few tilesets.
Init ==
    /\ InitLoop
    /\ \E rig \in MainRigs :
          /\ overflow_checks = rig[1]
          /\ background_tileset = rig[2]
          /\ background_texture = rig[3]
    /\ \E layers \in LayerSeqs :
          world_map = MapOf(MaxMapDim, MaxMapDim, MaxTile, MaxTile, layers)

Spec == Init /\ [][Next]_vars

\* One layer of one tile of any id, any tileset geometry and texture size.
InitTile ==
    /\ InitLoop
    /\ overflow_checks \in BOOLEAN
    /\ \E id \in 0 .. MaxTileId :
          world_map = MapOf(1, 1, MaxTile, MaxTile,
              << FiniteLayer(1, 1, [p \in {<<0, 0>>} |->
                     Some([id |-> id, flip_h |-> id % 2 = 1, flip_v |-> id % 3 = 1])]) >>)
    /\ \/ /\ \E tw \in 0 .. MaxTile, th \in 1 .. MaxTile,
                m \in 0 .. MaxMargin, sp \in 0 .. MaxSpacing :
                   background_tileset = TilesetOf(tw, th, m, sp)
          /\ \E w \in 0 .. MaxTexW, h \in 1 .. MaxTexH :
                   background_texture = TextureOf(w, h)
       \/ /\ background_tileset = TilesetOf(16, 16, 0, 0)
          /\ background_texture = TextureOf(128, 32)

SpecTile == InitTile /\ [][Next]_vars

\* Maps, layers and tilesets whose sizes vary independently; sound tilesets.
InitScene ==
    /\ InitLoop
    /\ overflow_checks = TRUE
    /\ \E lw \in 1 .. MaxLayerDim, lh \in 1 .. MaxLayerDim, seed \in 0 .. MaxSeed :
          \/ \E w \in 1 .. MaxMapDim, h \in 1 .. MaxMapDim,
                tw \in 1 .. MaxTile, th \in 1 .. MaxTile :
                   world_map = MapOf(w, h, tw, th, <<SeedLayer(lw, lh, seed)>>)
          \/ world_map = MapOf(100, 75, 8, 8, <<SeedLayer(lw, lh, seed)>>)
    /\ \E tw \in 1 .. MaxTile, th \in 1 .. MaxTile :
          background_tileset = TilesetOf(tw, th, 0, 0)
    /\ background_texture = TextureOf(MaxTexW + MaxTile, MaxTexH + MaxTile)

SpecScene == InitScene /\ [][Next]_vars

(***************************************************************************)
(* Properties.                                                             *)
(***************************************************************************)
CallsOf(kind) == {i \in 1 .. Len(calls) : calls[i].kind = kind}

\* The tile a tile command was issued for.
TileAt(c) == GetTile(world_map.layers[c.cell[1]], c.cell[2], c.cell[3])

\* The reference column count: floor((texture_width - margin + spacing) / (tile_width + spacing)).
RefDivisor == background_tileset.tile_width + background_tileset.spacing
RefTilesPerRow ==
    (background_texture.w - background_tileset.margin + background_tileset.spacing)
        \div RefDivisor
RefSound == RefDivisor > 0 /\ RefTilesPerRow >= 1

\* The rows of tiles that fit in the height of the texture.
RefRows ==
    (background_texture.h - background_tileset.margin + background_tileset.spacing)
        \div (background_tileset.tile_height + background_tileset.spacing)

AfterBackground == pc \in {"characters", "fps", "clear", "blit", "next_frame"}

\* C1: whenever the reference column count floor((texture_width - margin +
\* spacing) / (tile_width + spacing)) is at least 1, draw_background does not
\* fail, draws the tile, and the source rectangle of the draw command is
\* x = (tile_id mod tiles_per_row) * tile_width, y = (tile_id div tiles_per_row)
\* * tile_height, w = tile_width, h = tile_height; a 128 wide texture of 16 wide
\* tiles without margin and spacing has 8 columns.
C1_SourceRectIsReference ==
    /\ RefSound =>
          /\ pc # "panic"
          /\ AfterBackground => CallsOf("tile") # {}
          /\ \A i \in CallsOf("tile") :
                calls[i].source =
                    << (TileAt(calls[i])[1].id % RefTilesPerRow) * background_tileset.tile_width,
                       (TileAt(calls[i])[1].id \div RefTilesPerRow) * background_tileset.tile_height,
                       background_tileset.tile_width,
                       background_tileset.tile_height >>
    /\ ( /\ background_texture.w = 128
         /\ background_tileset = TilesetOf(16, 16, 0, 0) ) =>
          TilesPerRow(background_texture.w, background_tileset, overflow_checks) = Some(8)

\* C1 witness: a tile of the second row and a later column was drawn from a
\* sheet with margin and spacing.
C1_Witness ==
    \E i \in CallsOf("tile") :
        /\ background_tileset.margin > 0
        /\ background_tileset.spacing > 0
        /\ RefSound
        /\ calls[i].source[1] > 0
        /\ calls[i].source[2] > 0

\* C2: for every tile id in [0, tiles_per_row * rows), rows being the tile rows
\* that fit in the texture height, the source rectangle of the draw command
\* lies inside the texture, with or without margin and spacing.
C2_SourceRectInsideTexture ==
    \A i \in CallsOf("tile") :
        ( /\ RefSound
          /\ RefRows >= 1
          /\ TileAt(calls[i])[1].id < RefTilesPerRow * RefRows ) =>
            /\ 0 <= calls[i].source[1]
            /\ calls[i].source[1] + calls[i].source[3] <= background_texture.w
            /\ 0 <= calls[i].source[2]
            /\ calls[i].source[2] + calls[i].source[4] <= background_texture.h

\* C2 witness: the last tile of a sheet of several rows and columns, with
\* margin and spacing, was drawn.
C2_Witness ==
    \E i \in CallsOf("tile") :
        /\ background_tileset.margin > 0
        /\ background_tileset.spacing > 0
        /\ RefSound
        /\ RefRows >= 2
        /\ RefTilesPerRow >= 2
        /\ TileAt(calls[i])[1].id = RefTilesPerRow * RefRows - 1

\* The rational r equals n / d (d > 0).
RatIs(r, n, d) == r[1] * d = n * r[2]

\* C4: the final blit uses zoom = min(window_width / scene_width, window_height
\* / scene_height), a destination of size (scene_width * zoom, scene_height *
\* zoom) at offset ((window_width - dest_w) / 2, (window_height - dest_h) / 2);
\* the destination lies inside the window, keeps the aspect ratio of the scene
\* and spans the window on at least one axis.  Scene 800x600 in a 1600x600
\* window: zoom 1, destination 800x600 at (400, 0).
C4_BlitIsCenteredFit ==
    \A i \in CallsOf("blit") :
        LET c == calls[i]
            ww == c.window[1]
            wh == c.window[2]
            sw == world_map.width * world_map.tile_width
            sh == world_map.height * world_map.tile_height
            byWidth == ww * sh <= wh * sw
            zn == IF byWidth THEN ww ELSE wh
            zd == IF byWidth THEN sw ELSE sh
            dw == c.size[1]
            dh == c.size[2]
            px == c.pos[1]
            py == c.pos[2]
        IN /\ RatIs(dw, sw * zn, zd)
           /\ RatIs(dh, sh * zn, zd)
           /\ 2 * px[1] * dw[2] + dw[1] * px[2] = ww * px[2] * dw[2]
           /\ 2 * py[1] * dh[2] + dh[1] * py[2] = wh * py[2] * dh[2]
           /\ px[1] >= 0
           /\ py[1] >= 0
           /\ px[1] * dw[2] + dw[1] * px[2] <= ww * px[2] * dw[2]
           /\ py[1] * dh[2] + dh[1] * py[2] <= wh * py[2] * dh[2]
           /\ dw[1] * dh[2] * sh = dh[1] * dw[2] * sw
           /\ (RatIs(dw, ww, 1) \/ RatIs(dh, wh, 1))
           /\ (ww = 1600 /\ wh = 600 /\ sw = 800 /\ sh = 600) =>
                 /\ Zoom(c.window) = <<1, 1>>
                 /\ c.size = << <<800, 1>>, <<600, 1>> >>
                 /\ c.pos = << <<400, 1>>, <<0, 1>> >>

\* C4 witness: the 800x600 scene was put on a 1600x600 window.
C4_Witness ==
    \E i \in CallsOf("blit") :
        /\ calls[i].window = <<1600, 600>>
        /\ world_map.width * world_map.tile_width = 800
        /\ world_map.height * world_map.tile_height = 600

\* The populated cells <<layer, x, y>> of the finite tile layers among the first n layers.
PopulatedCells(n) ==
    {c \in UNION {{l} \X DOMAIN world_map.layers[l].tiles : l \in 1 .. n} :
        world_map.layers[c[1]].tiles[c[2]] # None}

PopulatedKeys(n) == {<<c[1], c[2][1], c[2][2]>> : c \in PopulatedCells(n)}

\* C5: every populated cell (column, row) inside the declared width and height
\* of a layer yields exactly one draw command, at (column * tile_width, row *
\* tile_height) with the flip flags the cell stores; an empty cell yields none;
\* when draw_background has returned there are as many tile commands as
\* populated cells.
C5_OneDrawPerPopulatedCell ==
    /\ \A i \in CallsOf("tile") :
          LET c == calls[i]
              layer == world_map.layers[c.cell[1]]
          IN /\ layer.kind = "tile"
             /\ layer.width # None /\ layer.height # None
             /\ c.cell[2] \in 0 .. layer.width[1] - 1
             /\ c.cell[3] \in 0 .. layer.height[1] - 1
             /\ TileAt(c) # None
             /\ c.pos = << c.cell[2] * background_tileset.tile_width,
                           c.cell[3] * background_tileset.tile_height >>
             /\ c.flip_x = TileAt(c)[1].flip_h
             /\ c.flip_y = TileAt(c)[1].flip_v
    /\ \A i, j \in CallsOf("tile") : calls[i].cell = calls[j].cell => i = j
    /\ pc \in {"background", "cell", "panic"} =>
          \A k \in PopulatedKeys(li - 1) : \E i \in CallsOf("tile") : calls[i].cell = k
    /\ AfterBackground =>
          /\ \A k \in PopulatedKeys(Len(world_map.layers)) :
                \E i \in CallsOf("tile") : calls[i].cell = k
          /\ Cardinality(CallsOf("tile")) = Cardinality(PopulatedKeys(Len(world_map.layers)))

\* C5 witness: draw_background has returned from a layer that holds empty and
\* populated cells, some of them flipped on one axis only.
C5_Witness ==
    /\ pc = "characters"
    /\ Cardinality(CallsOf("tile")) >= 2
    /\ Len(visited) > Cardinality(CallsOf("tile"))
    /\ \E i \in CallsOf("tile") : calls[i].flip_x # calls[i].flip_y

\* C6: in every frame all background tile commands (layers in declared order)
\* go to the offscreen target before every entity command, every entity command
\* goes to the same target before the window is cleared, the clear comes before
\* the one blit of the offscreen target to the window, and nothing is drawn into
\* the offscreen target after the clear.
C6_FrameOrder ==
    /\ \A i \in CallsOf("tile"), j \in CallsOf("entity") : i < j
    /\ \A i, j \in CallsOf("tile") : i < j => calls[i].cell[1] <= calls[j].cell[1]
    /\ \A i \in CallsOf("tile") \cup CallsOf("entity") :
          /\ calls[i].target = "offscreen"
          /\ \A j \in CallsOf("clear") : i < j
    /\ \A i \in CallsOf("clear") :
          /\ calls[i].target = "window"
          /\ \A j \in CallsOf("blit") : i < j
          /\ \A j \in 1 .. Len(calls) : i < j => calls[j].target # "offscreen"
    /\ \A i \in CallsOf("blit") : calls[i].target = "window"
    /\ Cardinality(CallsOf("clear")) <= 1
    /\ Cardinality(CallsOf("blit")) <= 1
    /\ pc \in {"blit", "next_frame"} =>
          /\ Cardinality(CallsOf("entity")) = Len(Characters)
          /\ Cardinality(CallsOf("clear")) = 1
    /\ pc = "next_frame" => Cardinality(CallsOf("blit")) = 1

\* C6 witness: a frame is complete whose background came from two layers.
C6_Witness ==
    /\ pc = "next_frame"
    /\ \E i, j \in CallsOf("tile") : calls[i].cell[1] # calls[j].cell[1]

\* C7: once the assets are loaded, no operation of a frame fails.
C7_NoFrameOperationFails == pc # "panic"

\* C9: the cells of a layer are visited row by row: of two cells of one layer
\* the one in the smaller row is visited (and drawn) first, and within a row
\* the one in the smaller column.
C9_RowMajorOrder ==
    \A i, j \in 1 .. Len(visited) :
        (i < j /\ visited[i][1] = visited[j][1]) =>
            \/ visited[i][3] < visited[j][3]
            \/ visited[i][3] = visited[j][3] /\ visited[i][2] < visited[j][2]

\* C9 as amended: the cells of a layer are visited column by column, inside the
\* declared width and height: of two cells of one layer the one in the smaller
\* column is visited (and, if populated, drawn) first, and within a column the
\* one in the smaller row; a layer that is left has had every cell visited once.
C9_ColumnMajorOrder ==
    /\ \A i, j \in 1 .. Len(visited) :
          (i < j /\ visited[i][1] = visited[j][1]) =>
              \/ visited[i][2] < visited[j][2]
              \/ visited[i][2] = visited[j][2] /\ visited[i][3] < visited[j][3]
    /\ \A i, j \in CallsOf("tile") :
          (i < j /\ calls[i].cell[1] = calls[j].cell[1]) =>
              \/ calls[i].cell[2] < calls[j].cell[2]
              \/ calls[i].cell[2] = calls[j].cell[2] /\ calls[i].cell[3] < calls[j].cell[3]
    /\ \A i \in 1 .. Len(visited) :
          LET layer == world_map.layers[visited[i][1]]
          IN /\ visited[i][2] \in 0 .. layer.width[1] - 1
             /\ visited[i][3] \in 0 .. layer.height[1] - 1
    /\ pc \in {"background", "cell", "panic"} =>
          \A l \in 1 .. li - 1 :
              \A c \in DOMAIN world_map.layers[l].tiles :
                  \E i \in 1 .. Len(visited) : visited[i] = <<l, c[1], c[2]>>

\* C9 witness: a layer of at least two columns and two rows was visited to the end.
C9_Witness ==
    /\ pc = "background"
    /\ \E i, j \in 1 .. Len(visited) :
          /\ visited[i][1] = visited[j][1]
          /\ visited[i][2] = 0 /\ visited[i][3] = 1
          /\ visited[j][2] = 1 /\ visited[j][3] = 0

\* C10: every background tile drawn lies inside the world scene buffer: column *
\* tile_width + tile_width <= scene_width and row * tile_height + tile_height <=
\* scene_height, tile sizes being the tileset's and the scene size the map's.
C10_TilesInsideScene ==
    \A i \in CallsOf("tile") :
        /\ calls[i].pos[1] + background_tileset.tile_width <= MapWidth
        /\ calls[i].pos[2] + background_tileset.tile_height <= MapHeight

\* C10 as amended: every background tile of a layer no wider and no higher than
\* the map lies inside the world scene buffer when the tile size of the tileset
\* is the tile size of the map.
C10_TilesInsideSceneWhenSizesAgree ==
    \A i \in CallsOf("tile") :
        LET layer == world_map.layers[calls[i].cell[1]]
        IN ( /\ background_tileset.tile_width = world_map.tile_width
             /\ background_tileset.tile_height = world_map.tile_height
             /\ layer.width[1] <= world_map.width
             /\ layer.height[1] <= world_map.height ) =>
               /\ calls[i].pos[1] + background_tileset.tile_width <= MapWidth
               /\ calls[i].pos[2] + background_tileset.tile_height <= MapHeight

\* C10 witness: the tile in the last column and row of a map of several
\* columns and rows was drawn, tileset and map agreeing on a tile size above 1.
C10_Witness ==
    \E i \in CallsOf("tile") :
        /\ background_tileset.tile_width = world_map.tile_width
        /\ background_tileset.tile_height = world_map.tile_height
        /\ world_map.tile_width > 1
        /\ world_map.width > 1 /\ world_map.height > 1
        /\ calls[i].cell[2] = world_map.width - 1
        /\ calls[i].cell[3] = world_map.height - 1

====
